---- MODULE Spec2Model ----
(***************************************************************************)
(* Model of lib/connect-session-firestore.js: the FirestoreStore session   *)
(* store (get, set, destroy, touch, clear, reap) running against a         *)
(* Firestore collection.  Every store method issues backend requests; a    *)
(* request takes effect at the backend in one step and its promise         *)
(* reaction (.then / .catch) runs in a later step, so calls interleave at  *)
(* every I/O boundary, as they do on the Node.js event loop.               *)
(***************************************************************************)
EXTENDS Integers, Sequences, FiniteSets, TLC

\* ------------------------------------------------------------------ bounds
MaxClock == 1
\* the last instant of a store with a reaper
MaxWait == 1

\* ------------------------------------------------------- program constants
reapInterval == 21600000

\* -------------------------------------------------------------- JS values
Undefined == [type |-> "undefined"]
Null == [type |-> "null"]
Num(n) == [type |-> "number", val |-> n]
WriteResult == [type |-> "WriteResult"]
Array(n) == [type |-> "array", length |-> n]
Error(req, key) == [type |-> "error", req |-> req, key |-> key]
Function == [type |-> "function"]
\* a number above 2147483647, the longest delay the runtime's timers take
Huge == [type |-> "number", above |-> "TIMEOUT_MAX"]
\* the exception a completion callback raises
Thrown == [type |-> "exception"]

\* --------------------------------------------------------------- inputs
\* session identifiers, as sequences of characters
Sids == { <<"s", ".">>, <<"t">> }
Session(d, ck) == [type |-> "object", data |-> d, cookie |-> ck]
Cookie(m) == [type |-> "object", maxAge |-> m]
\* session payloads handed to set and touch: without a cookie, with a
\* positive, a negative and a non-numeric cookie.maxAge
Sessions == { Session("x", Undefined), Session("x", Cookie(Num(1))),
              Session("y", Cookie(Num(0 - 1))), Session("y", Cookie(Null)) }
\* payload of the documents found at start-up (about to expire); documents
\* with other payloads and lifetimes are written by the calls of set
InitSessions == { Session("x", Cookie(Num(1))) }
\* clock values at which the documents found at start-up were written
InitTimes == { 0 - 1 }
\* what the write and delete promises of firebase-admin resolve with
WriteValue == WriteResult
\* the calls of store methods the application makes, in the order they
\* are made
Apps == { 1, 2 }
\* the calls of reap the interval timer makes
Passes == { 2, 3 }
Calls == Apps \cup Passes
\* the slot of the earliest call
First == { c \in Calls : \A d \in Calls : c <= d }

\* -------------------------------------------------------------- cleanRef
Disallowed == { ".", "$", "#", "[", "]", "/" }

cleanRef(str) == [i \in DOMAIN str |-> IF str[i] \in Disallowed THEN "_" ELSE str[i]]

Keys == { cleanRef(s) : s \in Sids }

\* ------------------------------------------------------------ documents
NoDoc == [exists |-> FALSE]

\* set with the clock left out of a numeric lifetime
expiresOfWithoutNow(now, session) ==
  IF session.cookie.type = "object" /\ session.cookie.maxAge.type = "number"
    THEN session.cookie.maxAge.val
    ELSE now + reapInterval

\* expiry computed by set
expiresOf(now, session) ==
  IF session.cookie.type = "object" /\ session.cookie.maxAge.type = "number"
    THEN now + session.cookie.maxAge.val
    ELSE now + reapInterval

\* a document that stores the payload without its cookie
dataOfWithoutCookie(now, session) ==
  [exists |-> TRUE, expires |-> expiresOf(now, session),
   session |-> [session EXCEPT !.cookie = Undefined], type |-> "connect-session"]

\* the document written by set
dataOf(now, session) ==
  [exists |-> TRUE, expires |-> expiresOf(now, session), session |-> session,
   type |-> "connect-session"]

\* the payload passed to touch, in place of the merge
touchedReplacingAll(stored, session) == session

\* Object.assign({}, stored, { cookie: session.cookie })
touched(stored, session) == [stored EXCEPT !.cookie = session.cookie]

\* the query with '<=' in place of '<'
expiredKeysInclusive(store, now) == { k \in Keys : store[k].exists /\ store[k].expires <= now }

\* the documents matched by where('expires', '<', now)
expiredKeys(store, now) == { k \in Keys : store[k].exists /\ store[k].expires < now }

allKeys(store) == { k \in Keys : store[k].exists }

\* arguments of one invocation of the completion callback: fn(), fn(v),
\* fn(null, v); a missing argument reads as undefined
Args(err, result) == [err |-> err, result |-> result]

VARIABLES
  db,       \* the collection: key -> document
  clock,    \* Date.now()
  op,       \* per call: the method called and its arguments
  pc,       \* per call: where the call stands
  now,      \* per call: the local const now
  req,      \* per call: the request in flight
  resp,     \* per call: the settled value of the last request
  remove,   \* per call: the array of delete promises of clear / reap
  all,      \* per call: state of Promise.all(remove)
  cb,       \* per call: invocations of the completion callback, in order
  log,      \* per call: backend requests executed, in order, with their outcome
  before,   \* per call: the collection when a lone reap was called (history)
  alone,    \* per call: no other call was in flight since this one was made (history)
  seen,     \* per call: the document get / touch read, and whether its expires
            \* was earlier than the clock at that moment (history)
  throws,   \* per call: the completion callback passed in raises an exception
  timer     \* the setInterval timer of the constructor: installed, its
            \* interval (this.reapInterval), and how often it has fired

vars == <<db, clock, op, pc, now, req, resp, remove, all, cb, log, before, alone, seen, throws, timer>>

NoOp == [name |-> "none", sid |-> <<>>, session |-> Undefined]
NoReq == [kind |-> "none", key |-> <<>>, data |-> NoDoc, bound |-> 0]
NoResp == [ok |-> TRUE, value |-> Undefined, doc |-> NoDoc, keys |-> {}]
NoRemove == [k \in {} |-> "pending"]
NoSeen == [doc |-> NoDoc, expired |-> FALSE]
EmptyStore == [k \in Keys |-> NoDoc]
\* documents a collection can hold at start-up: written by an earlier set
InitDocs == { NoDoc } \cup { dataOf(t, s) : t \in InitTimes, s \in InitSessions }
\* collections found at start-up
InitStores == [Keys -> InitDocs]

Busy(c) == pc[c] \notin { "idle", "done" }

\* ----------------------------------------------------------- constructor
Args0 == [reapInterval |-> Undefined, reapCallback |-> Undefined]
\* options with a numeric reapInterval and a function reapCallback
ReaperArgs == { [reapInterval |-> Num(n), reapCallback |-> Function] : n \in { 1, 2 } }

\* options with a numeric reapInterval of any size and a function
\* reapCallback
TimerArgs == ReaperArgs \cup { [reapInterval |-> Huge, reapCallback |-> Function] }

Truthy(v) == v.type \notin { "undefined", "null" } /\ v # Num(0)

\* this.reapInterval = args.reapInterval || reapInterval
thisReapInterval(args) ==
  IF Truthy(args.reapInterval) THEN args.reapInterval ELSE Num(reapInterval)

\* this.reapCallback = args.reapCallback || reapCallback
thisReapCallback(args) ==
  IF Truthy(args.reapCallback) THEN args.reapCallback ELSE Function

\* the delay setInterval(callback, v) repeats with: v itself from 1 to
\* 2147483647, and 1 millisecond for any other v
delayOf(v) ==
  IF v.type = "number" /\ v # Huge /\ v.val >= 1 THEN v.val ELSE 1

\* setInterval(this.reap.bind(this, this.reapCallback), this.reapInterval),
\* when the interval is a number and the callback a function
timerOf(args) ==
  [installed |-> thisReapInterval(args).type = "number"
                 /\ thisReapCallback(args).type = "function",
   interval |-> thisReapInterval(args),
   delay |-> delayOf(thisReapInterval(args)),
   fired |-> 0]

\* the store after new FirestoreStore(args), for args and callbacks drawn
\* from the given sets
FirestoreStore(argsSet, throwsSet, stores) ==
  /\ \E args \in argsSet : timer = timerOf(args)
  /\ throws \in throwsSet
  /\ db \in stores
  /\ clock = 0
  /\ op = [c \in Calls |-> NoOp]
  /\ pc = [c \in Calls |-> "idle"]
  /\ now = [c \in Calls |-> 0]
  /\ req = [c \in Calls |-> NoReq]
  /\ resp = [c \in Calls |-> NoResp]
  /\ remove = [c \in Calls |-> NoRemove]
  /\ all = [c \in Calls |-> "none"]
  /\ cb = [c \in Calls |-> <<>>]
  /\ log = [c \in Calls |-> <<>>]
  /\ before = [c \in Calls |-> EmptyStore]
  /\ alone = [c \in Calls |-> FALSE]
  /\ seen = [c \in Calls |-> NoSeen]

\* default options, callbacks that return normally; the timer installed
\* with the default interval of six hours is not due within MaxClock
Init == FirestoreStore({ Args0 }, { [c \in Calls |-> FALSE] }, InitStores)

\* ------------------------------------------------------------- helpers
\* fn(...) is called in a .catch(fn), or in a reaction that is the last of
\* its chain: one more invocation of the completion callback
Invoke(c, args) == cb' = [cb EXCEPT ![c] = Append(@, args)]

\* fn(...) is called in a reaction that is followed by .catch(fn): when fn
\* raises, .catch(fn) calls it again with the exception
InvokeThenCatch(c, args) ==
  cb' = [cb EXCEPT ![c] = IF throws[c] THEN @ \o <<args, Args(Thrown, Undefined)>>
                                      ELSE Append(@, args)]

\* the chain .then(fn).catch(fn) of set / destroy settles: fn gets the value
\* or the rejection; called from get / touch, a chain whose last fn raised
\* rejects the promise returned to them, which their .catch(fn) handles
InvokeChain(c, ok, value, nested) ==
  cb' = [cb EXCEPT ![c] =
           @ \o <<Args(value, Undefined)>>
             \o (IF throws[c] /\ ok THEN <<Args(Thrown, Undefined)>> ELSE <<>>)
             \o (IF throws[c] /\ nested THEN <<Args(Thrown, Undefined)>> ELSE <<>>)]

\* a backend request was executed: remember it
Logged(c, ok) ==
  log' = [log EXCEPT ![c] = Append(@, [kind |-> req[c].kind, key |-> req[c].key, ok |-> ok])]

\* a store method is entered on call slot c
Enter(c, name, sid, session) ==
  /\ pc[c] = "idle"
  /\ \A d \in Calls : d < c => pc[d] # "idle"
  /\ op' = [op EXCEPT ![c] = [name |-> name, sid |-> sid, session |-> session]]
  /\ UNCHANGED <<resp, remove, all, cb, log, seen>>
  /\ alone' = [d \in Calls |-> IF d = c THEN \A e \in Calls \ {c} : ~Busy(e) ELSE FALSE]
  /\ before' = [before EXCEPT ![c] =
                  IF name = "reap" /\ (\A e \in Calls \ {c} : ~Busy(e)) THEN db ELSE EmptyStore]

Request(kind, key, data, bound) == [kind |-> kind, key |-> key, data |-> data, bound |-> bound]

\* ------------------------------------------------------- store methods
get(c, sid) ==
  /\ Enter(c, "get", sid, Undefined)
  /\ now' = [now EXCEPT ![c] = clock]
  /\ req' = [req EXCEPT ![c] = Request("get", cleanRef(sid), NoDoc, 0)]
  /\ pc' = [pc EXCEPT ![c] = "doc.get"]
  /\ UNCHANGED <<db, clock, throws, timer>>

\* get whose expired branch calls destroy and falls through to fn()
getThenFallingThrough(c) ==
  /\ pc[c] = "get.then"
  /\ IF ~resp[c].ok
       THEN /\ Invoke(c, Args(resp[c].value, Undefined))
            /\ pc' = [pc EXCEPT ![c] = "done"]
            /\ UNCHANGED req
       ELSE IF ~resp[c].doc.exists
       THEN /\ InvokeThenCatch(c, Args(Undefined, Undefined))
            /\ pc' = [pc EXCEPT ![c] = "done"]
            /\ UNCHANGED req
       ELSE IF resp[c].doc.expires < now[c]
       THEN /\ req' = [req EXCEPT ![c] = Request("delete", cleanRef(op[c].sid), NoDoc, 0)]
            /\ pc' = [pc EXCEPT ![c] = "doc.delete"]
            /\ Invoke(c, Args(Null, resp[c].doc.session))
       ELSE /\ InvokeThenCatch(c, Args(Null, resp[c].doc.session))
            /\ pc' = [pc EXCEPT ![c] = "done"]
            /\ UNCHANGED req
  /\ UNCHANGED <<db, clock, op, now, resp, remove, all, log, before, alone, seen, throws, timer>>

getThen(c) ==
  /\ pc[c] = "get.then"
  /\ IF ~resp[c].ok
       THEN /\ Invoke(c, Args(resp[c].value, Undefined))
            /\ pc' = [pc EXCEPT ![c] = "done"]
            /\ UNCHANGED req
       ELSE IF ~resp[c].doc.exists
       THEN /\ InvokeThenCatch(c, Args(Undefined, Undefined))
            /\ pc' = [pc EXCEPT ![c] = "done"]
            /\ UNCHANGED req
       ELSE IF resp[c].doc.expires < now[c]
       THEN /\ req' = [req EXCEPT ![c] = Request("delete", cleanRef(op[c].sid), NoDoc, 0)]
            /\ pc' = [pc EXCEPT ![c] = "doc.delete"]
            /\ UNCHANGED cb
       ELSE /\ InvokeThenCatch(c, Args(Null, resp[c].doc.session))
            /\ pc' = [pc EXCEPT ![c] = "done"]
            /\ UNCHANGED req
  /\ UNCHANGED <<db, clock, op, now, resp, remove, all, log, before, alone, seen, throws, timer>>

\* set with the configured reapInterval as the default lifetime
setUsingReapInterval(c, sid, session) ==
  /\ Enter(c, "set", sid, session)
  /\ now' = [now EXCEPT ![c] = clock]
  /\ req' = [req EXCEPT ![c] =
       Request("set", cleanRef(sid),
               [dataOf(clock, session) EXCEPT !.expires =
                  IF session.cookie.type = "object" /\ session.cookie.maxAge.type = "number"
                    THEN clock + session.cookie.maxAge.val
                    ELSE clock + timer.interval.val], 0)]
  /\ pc' = [pc EXCEPT ![c] = "doc.set"]
  /\ UNCHANGED <<db, clock, throws, timer>>

set(c, sid, session) ==
  /\ Enter(c, "set", sid, session)
  /\ now' = [now EXCEPT ![c] = clock]
  /\ req' = [req EXCEPT ![c] = Request("set", cleanRef(sid), dataOf(clock, session), 0)]
  /\ pc' = [pc EXCEPT ![c] = "doc.set"]
  /\ UNCHANGED <<db, clock, throws, timer>>

\* set that reports a failed write as success
setThenSwallowing(c) ==
  /\ pc[c] = "set.then"
  /\ Invoke(c, Args(IF resp[c].ok THEN resp[c].value ELSE Null, Undefined))
  /\ pc' = [pc EXCEPT ![c] = "done"]
  /\ UNCHANGED <<db, clock, op, now, req, resp, remove, all, log, before, alone, seen, throws, timer>>

\* .then(fn).catch(fn) after the write
setThen(c) ==
  /\ pc[c] = "set.then"
  /\ InvokeChain(c, resp[c].ok, resp[c].value, op[c].name = "touch")
  /\ pc' = [pc EXCEPT ![c] = "done"]
  /\ UNCHANGED <<db, clock, op, now, req, resp, remove, all, log, before, alone, seen, throws, timer>>

destroy(c, sid) ==
  /\ Enter(c, "destroy", sid, Undefined)
  /\ req' = [req EXCEPT ![c] = Request("delete", cleanRef(sid), NoDoc, 0)]
  /\ pc' = [pc EXCEPT ![c] = "doc.delete"]
  /\ UNCHANGED <<db, clock, now, throws, timer>>

\* .then(fn).catch(fn) after the delete
destroyThen(c) ==
  /\ pc[c] = "destroy.then"
  /\ InvokeChain(c, resp[c].ok, resp[c].value, op[c].name = "get")
  /\ pc' = [pc EXCEPT ![c] = "done"]
  /\ UNCHANGED <<db, clock, op, now, req, resp, remove, all, log, before, alone, seen, throws, timer>>

touch(c, sid, session) ==
  /\ Enter(c, "touch", sid, session)
  /\ req' = [req EXCEPT ![c] = Request("get", cleanRef(sid), NoDoc, 0)]
  /\ pc' = [pc EXCEPT ![c] = "doc.get"]
  /\ UNCHANGED <<db, clock, now, throws, timer>>

touchThen(c) ==
  /\ pc[c] = "touch.then"
  /\ IF ~resp[c].ok
       THEN /\ Invoke(c, Args(resp[c].value, Undefined))
            /\ pc' = [pc EXCEPT ![c] = "done"]
            /\ UNCHANGED <<req, now>>
       ELSE IF ~resp[c].doc.exists
       THEN /\ InvokeThenCatch(c, Args(Undefined, Undefined))
            /\ pc' = [pc EXCEPT ![c] = "done"]
            /\ UNCHANGED <<req, now>>
       ELSE /\ now' = [now EXCEPT ![c] = clock]
            /\ req' = [req EXCEPT ![c] =
                 Request("set", cleanRef(op[c].sid),
                         dataOf(clock, touched(resp[c].doc.session, op[c].session)), 0)]
            /\ pc' = [pc EXCEPT ![c] = "doc.set"]
            /\ UNCHANGED cb
  /\ UNCHANGED <<db, clock, op, resp, remove, all, log, before, alone, seen, throws, timer>>

clear(c) ==
  /\ Enter(c, "clear", <<>>, Undefined)
  /\ req' = [req EXCEPT ![c] = Request("all", <<>>, NoDoc, 0)]
  /\ pc' = [pc EXCEPT ![c] = "col.get"]
  /\ UNCHANGED <<db, clock, now, throws, timer>>

reap(c) ==
  /\ Enter(c, "reap", <<>>, Undefined)
  /\ now' = [now EXCEPT ![c] = clock]
  /\ req' = [req EXCEPT ![c] = Request("where", <<>>, NoDoc, clock)]
  /\ pc' = [pc EXCEPT ![c] = "col.get"]
  /\ UNCHANGED <<db, clock, throws, timer>>

\* the reaction to the query of clear / reap: one delete per snapshot, then
\* Promise.all(remove).then(fn).catch(fn); a failed query goes to .catch(fn)
removeEach(c) ==
  IF ~resp[c].ok
    THEN /\ Invoke(c, Args(resp[c].value, Undefined))
         /\ pc' = [pc EXCEPT ![c] = "done"]
         /\ UNCHANGED <<remove, all>>
    ELSE IF resp[c].keys = {}
    THEN /\ InvokeThenCatch(c, Args(Array(0), Undefined))
         /\ all' = [all EXCEPT ![c] = "fulfilled"]
         /\ pc' = [pc EXCEPT ![c] = "done"]
         /\ UNCHANGED remove
    ELSE /\ remove' = [remove EXCEPT ![c] = [k \in resp[c].keys |-> "pending"]]
         /\ all' = [all EXCEPT ![c] = "pending"]
         /\ pc' = [pc EXCEPT ![c] = "removing"]
         /\ UNCHANGED cb

clearThen(c) ==
  /\ pc[c] = "col.then"
  /\ op[c].name = "clear"
  /\ removeEach(c)
  /\ UNCHANGED <<db, clock, op, now, req, resp, log, before, alone, seen, throws, timer>>

reapThen(c) ==
  /\ pc[c] = "col.then"
  /\ op[c].name = "reap"
  /\ removeEach(c)
  /\ UNCHANGED <<db, clock, op, now, req, resp, log, before, alone, seen, throws, timer>>

\* ------------------------------------------------------------- backend
\* doc(key).get() is executed
DocGet(c, ok) ==
  /\ pc[c] = "doc.get"
  /\ resp' = [resp EXCEPT ![c] =
       IF ok THEN [ok |-> TRUE, value |-> Undefined, doc |-> db[req[c].key], keys |-> {}]
             ELSE [ok |-> FALSE, value |-> Error("get", req[c].key), doc |-> NoDoc, keys |-> {}]]
  /\ Logged(c, ok)
  /\ seen' = [seen EXCEPT ![c] = IF ok THEN [doc |-> db[req[c].key],
                           expired |-> db[req[c].key].exists /\ db[req[c].key].expires < clock]
             ELSE @]
  /\ pc' = [pc EXCEPT ![c] = IF op[c].name = "get" THEN "get.then" ELSE "touch.then"]
  /\ UNCHANGED <<db, clock, op, now, req, remove, all, cb, before, alone, throws, timer>>

\* doc(key).set(data) is executed
DocSet(c, ok) ==
  /\ pc[c] = "doc.set"
  /\ db' = IF ok THEN [db EXCEPT ![req[c].key] = req[c].data] ELSE db
  /\ resp' = [resp EXCEPT ![c] =
       IF ok THEN [ok |-> TRUE, value |-> WriteValue, doc |-> NoDoc, keys |-> {}]
             ELSE [ok |-> FALSE, value |-> Error("set", req[c].key), doc |-> NoDoc, keys |-> {}]]
  /\ Logged(c, ok)
  /\ pc' = [pc EXCEPT ![c] = "set.then"]
  /\ UNCHANGED <<clock, op, now, req, remove, all, cb, before, alone, seen, throws, timer>>

\* doc(key).delete() is executed
DocDelete(c, ok) ==
  /\ pc[c] = "doc.delete"
  /\ db' = IF ok THEN [db EXCEPT ![req[c].key] = NoDoc] ELSE db
  /\ resp' = [resp EXCEPT ![c] =
       IF ok THEN [ok |-> TRUE, value |-> WriteValue, doc |-> NoDoc, keys |-> {}]
             ELSE [ok |-> FALSE, value |-> Error("delete", req[c].key), doc |-> NoDoc, keys |-> {}]]
  /\ Logged(c, ok)
  /\ pc' = [pc EXCEPT ![c] = "destroy.then"]
  /\ UNCHANGED <<clock, op, now, req, remove, all, cb, before, alone, seen, throws, timer>>

\* collection.get() / collection.where('expires', '<', now).get() is executed
QueryGet(c, ok) ==
  /\ pc[c] = "col.get"
  /\ resp' = [resp EXCEPT ![c] =
       IF ok THEN [ok |-> TRUE, value |-> Undefined, doc |-> NoDoc,
                   keys |-> IF req[c].kind = "all" THEN allKeys(db)
                                                   ELSE expiredKeys(db, req[c].bound)]
             ELSE [ok |-> FALSE, value |-> Error(req[c].kind, <<>>), doc |-> NoDoc, keys |-> {}]]
  /\ Logged(c, ok)
  /\ pc' = [pc EXCEPT ![c] = "col.then"]
  /\ UNCHANGED <<db, clock, op, now, req, remove, all, cb, before, alone, seen, throws, timer>>

\* Promise.all over the delete promises: rejects with the first rejection,
\* fulfils with the array of values once every promise has fulfilled
PromiseAll(state, promises) ==
  IF state # "pending" THEN state
  ELSE IF \E k \in DOMAIN promises : promises[k] = "rejected" THEN "rejected"
  ELSE IF \A k \in DOMAIN promises : promises[k] = "fulfilled" THEN "fulfilled"
  ELSE "pending"

\* the outcome of the snapshot.ref.delete() of key k that the backend has
\* executed for call c, if any
Executed(c, k) == { e \in { log[c][i] : i \in DOMAIN log[c] } : e.kind = "delete" /\ e.key = k }

\* one snapshot.ref.delete() of clear / reap is executed by the backend; its
\* promise has not settled yet
RefDelete(c, k, ok) ==
  /\ pc[c] = "removing"
  /\ k \in DOMAIN remove[c]
  /\ remove[c][k] = "pending"
  /\ Executed(c, k) = {}
  /\ db' = IF ok THEN [db EXCEPT ![k] = NoDoc] ELSE db
  /\ log' = [log EXCEPT ![c] = Append(@, [kind |-> "delete", key |-> k, ok |-> ok])]
  /\ UNCHANGED <<clock, op, pc, now, req, resp, remove, all, cb, before, alone, seen, throws, timer>>

\* the promise of an executed snapshot.ref.delete() settles, and
\* Promise.all(remove).then(fn).catch(fn) reacts to its settlement
RefDeleteThen(c, k) ==
  /\ pc[c] = "removing"
  /\ k \in DOMAIN remove[c]
  /\ remove[c][k] = "pending"
  /\ \E e \in Executed(c, k) :
       /\ remove' = [remove EXCEPT ![c][k] = IF e.ok THEN "fulfilled" ELSE "rejected"]
       /\ all' = [all EXCEPT ![c] = PromiseAll(all[c], remove'[c])]
       /\ IF all[c] = "pending" /\ all'[c] = "rejected"
            THEN Invoke(c, Args(Error("delete", k), Undefined))
            ELSE IF all[c] = "pending" /\ all'[c] = "fulfilled"
            THEN InvokeThenCatch(c, Args(Array(Cardinality(DOMAIN remove[c])), Undefined))
            ELSE UNCHANGED cb
       /\ pc' = [pc EXCEPT ![c] =
            IF \E j \in DOMAIN remove'[c] : remove'[c][j] = "pending" THEN "removing" ELSE "done"]
  /\ UNCHANGED <<db, clock, op, now, req, resp, log, before, alone, seen, throws, timer>>

\* time passes between two steps
Tick ==
  /\ clock < MaxClock
  /\ clock' = clock + 1
  /\ UNCHANGED <<db, op, pc, now, req, resp, remove, all, cb, log, before, alone, seen, throws, timer>>

Next ==
  \/ \E c \in Apps, sid \in Sids : get(c, sid)
  \/ \E c \in Apps : getThen(c)
  \/ \E c \in Apps, sid \in Sids, session \in Sessions : set(c, sid, session)
  \/ \E c \in Apps : setThen(c)
  \/ \E c \in Apps, sid \in Sids : destroy(c, sid)
  \/ \E c \in Apps : destroyThen(c)
  \/ \E c \in Apps, sid \in Sids, session \in Sessions : touch(c, sid, session)
  \/ \E c \in Apps : touchThen(c)
  \/ \E c \in Apps : clear(c)
  \/ \E c \in Apps : clearThen(c)
  \/ \E c \in Apps : reap(c)
  \/ \E c \in Apps : reapThen(c)
  \/ \E c \in Apps, ok \in BOOLEAN : DocGet(c, ok)
  \/ \E c \in Apps, ok \in BOOLEAN : DocSet(c, ok)
  \/ \E c \in Apps, ok \in BOOLEAN : DocDelete(c, ok)
  \/ \E c \in Apps, ok \in BOOLEAN : QueryGet(c, ok)
  \/ \E c \in Apps, k \in Keys, ok \in BOOLEAN : RefDelete(c, k, ok)
  \/ \E c \in Apps, k \in Keys : RefDeleteThen(c, k)
  \/ Tick

Spec == Init /\ [][Next]_vars

\* ------------------------------------------------- callbacks that raise
\* one call of a store method, with a completion callback that raises an
\* exception whenever it is invoked
InitThrow == FirestoreStore({ Args0 }, { [c \in Calls |-> TRUE] }, InitStores)

NextThrow ==
  \/ \E c \in First, sid \in Sids : get(c, sid)
  \/ \E c \in First : getThen(c)
  \/ \E c \in First, sid \in Sids, session \in Sessions : set(c, sid, session)
  \/ \E c \in First : setThen(c)
  \/ \E c \in First, sid \in Sids : destroy(c, sid)
  \/ \E c \in First : destroyThen(c)
  \/ \E c \in First, sid \in Sids, session \in Sessions : touch(c, sid, session)
  \/ \E c \in First : touchThen(c)
  \/ \E c \in First : clear(c)
  \/ \E c \in First : clearThen(c)
  \/ \E c \in First : reap(c)
  \/ \E c \in First : reapThen(c)
  \/ \E c \in First, ok \in BOOLEAN : DocGet(c, ok)
  \/ \E c \in First, ok \in BOOLEAN : DocSet(c, ok)
  \/ \E c \in First, ok \in BOOLEAN : DocDelete(c, ok)
  \/ \E c \in First, ok \in BOOLEAN : QueryGet(c, ok)
  \/ \E c \in First, k \in Keys, ok \in BOOLEAN : RefDelete(c, k, ok)
  \/ \E c \in First, k \in Keys : RefDeleteThen(c, k)
  \/ Tick

SpecThrow == InitThrow /\ [][NextThrow]_vars

\* ------------------------------------------------------------ the reaper
\* time passes, up to MaxWait, whether or not a firing of the timer is due
Wait ==
  /\ clock < MaxWait
  /\ clock' = clock + 1
  /\ UNCHANGED <<db, op, pc, now, req, resp, remove, all, cb, log, before, alone, seen, throws, timer>>

\* the earliest Date.now() at which the n-th callback of the timer runs: the
\* runtime runs it not before n delays of the timer on its own clock, which
\* Date.now(), cut to whole milliseconds, trails by less than one
NotBefore(n) == n * timer.delay - 1

\* a callback of the interval timer runs, at the due instant or at any
\* later one: this.reap(this.reapCallback) is called, as a new call on the
\* lowest slot that has no pass in flight, whether or not earlier passes
\* have finished, and reads the clock
Timeout(c) ==
  /\ timer.installed
  /\ clock >= NotBefore(timer.fired + 1)
  /\ ~Busy(c)
  /\ \A d \in Passes : d < c => Busy(d)
  /\ timer' = [timer EXCEPT !.fired = @ + 1]
  /\ op' = [op EXCEPT ![c] = [name |-> "reap", sid |-> <<>>, session |-> Undefined]]
  /\ now' = [now EXCEPT ![c] = clock]
  /\ req' = [req EXCEPT ![c] = Request("where", <<>>, NoDoc, clock)]
  /\ pc' = [pc EXCEPT ![c] = "col.get"]
  /\ resp' = [resp EXCEPT ![c] = NoResp]
  /\ remove' = [remove EXCEPT ![c] = NoRemove]
  /\ all' = [all EXCEPT ![c] = "none"]
  /\ cb' = [cb EXCEPT ![c] = <<>>]
  /\ log' = [log EXCEPT ![c] = <<>>]
  /\ seen' = [seen EXCEPT ![c] = NoSeen]
  /\ alone' = [d \in Calls |-> IF d = c THEN \A e \in Calls \ {c} : ~Busy(e) ELSE FALSE]
  /\ before' = [before EXCEPT ![c] =
                  IF \A e \in Calls \ {c} : ~Busy(e) THEN db ELSE EmptyStore]
  /\ UNCHANGED <<db, clock, throws>>

\* a store constructed with a numeric reapInterval and a function
\* reapCallback
\* collections found at start-up that hold at most one record; a second
\* record comes from the application's set
ReaperStores == { s \in InitStores : \E k \in Keys : ~s[k].exists }
InitReaper == FirestoreStore(ReaperArgs, { [c \in Calls |-> FALSE] }, ReaperStores)

\* the payloads the application writes: without a cookie, with a numeric
\* maxAge and with a maxAge that is not a number
ReaperSessions == Sessions \ InitSessions

\* one set by the application, at any time, the passes of the reaper, and a
\* backend that does not fail
NextReaper ==
  \/ Wait
  \/ \E c \in Passes : Timeout(c)
  \/ \E c \in Passes : QueryGet(c, TRUE)
  \/ \E c \in Passes : reapThen(c)
  \/ \E c \in Passes, k \in Keys : RefDelete(c, k, TRUE)
  \/ \E c \in Passes, k \in Keys : RefDeleteThen(c, k)
  \/ \E c \in First, sid \in Sids, session \in ReaperSessions : set(c, sid, session)
  \/ \E c \in First : DocSet(c, TRUE)
  \/ \E c \in First : setThen(c)

\* the steps that do not wait for the application: time passing, the timer
\* firing, the backend answering a pass and the pass reacting
Progress ==
  \/ Wait
  \/ \E c \in Passes : Timeout(c)
  \/ \E c \in Passes : QueryGet(c, TRUE)
  \/ \E c \in Passes : reapThen(c)
  \/ \E c \in Passes, k \in Keys : RefDelete(c, k, TRUE)
  \/ \E c \in Passes, k \in Keys : RefDeleteThen(c, k)

\* as long as one of these steps can be taken, one of them is taken: no
\* behaviour has more than finitely many of them up to MaxWait, so each one
\* that stays possible is taken
FairReaper == WF_vars(Progress)

SpecReaper == InitReaper /\ [][NextReaper]_vars /\ FairReaper

\* the same store and application, constructed with a reapInterval of any
\* size
InitTimer == FirestoreStore(TimerArgs, { [c \in Calls |-> FALSE] }, ReaperStores)
SpecTimer == InitTimer /\ [][NextReaper]_vars /\ FairReaper

\* =================================================================
\* Properties
\* =================================================================
Done(c) == pc[c] = "done"
IsBulk(c) == op[c].name \in { "clear", "reap" }
Failed(e) == ~e.ok
Failures(c) == SelectSeq(log[c], Failed)
ErrorOf(e) == Error(e.kind, e.key)
NoSession == Args(Undefined, Undefined)
Deleted(c) == \E i \in DOMAIN log[c] : log[c][i].kind = "delete" /\ log[c][i].ok
Pending(c) == { k \in DOMAIN remove[c] : remove[c][k] = "pending" }

\* the delete of key k issued by clear / reap call c takes effect in this step
Removes(c, k) ==
  /\ pc[c] = "removing"
  /\ k \in Pending(c)
  /\ Executed(c, k) = {}
  /\ log'[c] = Append(log[c], [kind |-> "delete", key |-> k, ok |-> TRUE])

\* C1: a reap pass deletes only records that are expired in the live state
\* at deletion time: a record refreshed by a set (expires not earlier than
\* the pass's now) before the pass's delete of its key is never deleted.
C1_ReapDeletesOnlyExpired ==
  [][\A c \in Calls, k \in Keys :
       (/\ op[c].name = "reap"
        /\ Removes(c, k)
        /\ db[k].exists)
       => db[k].expires < now[c]]_vars

\* C2: get never reports the payload of a record whose expires is earlier
\* than the clock when the record is read from the backend; such a record is
\* reported as no session and removed from the backend.
C2_GetExpiredIsAbsent ==
  \A c \in Calls :
    (op[c].name = "get" /\ seen[c].expired) =>
      /\ \A i \in DOMAIN cb[c] : cb[c][i].result = Undefined
      /\ Done(c) => (cb[c] = <<NoSession>> /\ Deleted(c))

\* C3: every call invokes its completion callback exactly once, whatever the
\* outcome of each backend request it issues: never twice, and once by the
\* time the call has nothing left in flight.
C3_CallbackExactlyOnce ==
  \A c \in Calls :
    /\ Len(cb[c]) <= 1
    /\ Done(c) => Len(cb[c]) = 1
    /\ pc[c] = "removing" => Pending(c) # {}
    /\ (Busy(c) /\ ~IsBulk(c)) => Len(cb[c]) = 0

C3_Witness ==
  \E c \in Calls :
    /\ Done(c) /\ IsBulk(c)
    /\ Len(Failures(c)) >= 2
    /\ Len(cb[c]) = 1

\* C4: when every backend request of a set, destroy or clear succeeds, the
\* completion callback gets a null or absent error argument.
C4_SuccessHasNoError ==
  \A c \in Calls :
    (/\ op[c].name \in { "set", "destroy", "clear" }
     /\ Done(c)
     /\ Failures(c) = <<>>)
    => \A i \in DOMAIN cb[c] : cb[c][i].err \in { Null, Undefined }

\* C5: get on an expired record whose delete succeeds invokes the callback
\* with the same arguments as get on a key without a record.
C5_ExpiredLooksAbsent ==
  \A c \in Calls :
    (/\ op[c].name = "get"
     /\ Done(c)
     /\ seen[c].doc.exists
     /\ seen[c].doc.expires < now[c]
     /\ Deleted(c))
    => cb[c] = <<NoSession>>

\* C6: touch on a record whose expires is earlier than the clock treats it
\* as absent: it never writes a refreshed record, reports no session and
\* removes the record.
C6_TouchLazyExpiry ==
  \A c \in Calls :
    (op[c].name = "touch" /\ seen[c].expired) =>
      /\ req[c].kind # "set"
      /\ Done(c) => (cb[c] = <<NoSession>> /\ Deleted(c))

\* the write of call c takes effect in this step
Writes(c) == pc[c] = "doc.set" /\ pc'[c] = "set.then" /\ resp'[c].ok
PositiveLifetime(session) ==
  \/ session.cookie.type # "object"
  \/ session.cookie.maxAge.type # "number"
  \/ session.cookie.maxAge.val > 0

\* C7 (as claimed): every record written by set or touch carries an expires
\* strictly greater than the clock at the time of the write.
C7_ExpiresInFutureAtWrite ==
  [][\A c \in Calls : Writes(c) => db'[req[c].key].expires > clock]_vars

\* C7 (amended): the record written by set or touch carries the expires set
\* computed, which is strictly greater than the clock read by set (the nested
\* set, for touch) exactly when the payload has no numeric cookie.maxAge or a
\* positive one.
C7_ExpiresAfterSetNow ==
  [][\A c \in Calls : Writes(c) =>
       LET d == db'[req[c].key] IN
         /\ d.exists
         /\ (d.expires > now[c]) <=> PositiveLifetime(d.session)]_vars

C7_Witness ==
  \E c \in Calls :
    /\ op[c].name = "touch"
    /\ pc[c] = "set.then" /\ resp[c].ok
    /\ db[req[c].key] = req[c].data
    /\ PositiveLifetime(req[c].data.session)
    /\ req[c].data.session.cookie.type = "object"
    /\ req[c].data.expires > now[c]
    /\ now[c] > 0

\* C8: clear and reap invoke their callback only after every removal they
\* issued has completed.
C8_CallbackAfterAllRemovals ==
  \A c \in Calls : (IsBulk(c) /\ cb[c] # <<>>) => Pending(c) = {}

NoRepeat(l) == \A i, j \in DOMAIN l : (l[i].kind = l[j].kind /\ l[i].key = l[j].key) => i = j

FailureErrors(c) == { ErrorOf(log[c][i]) : i \in { n \in DOMAIN log[c] : Failed(log[c][n]) } }

\* C9: when a backend request of a call fails, the callback is invoked with
\* that failure's error and nothing else (for the deletes of clear and reap,
\* the error of the first rejection the call meets), the failure is never
\* reported as success, and no request is issued twice.
C9_FailureSurfaced ==
  /\ [](\A c \in Calls :
         /\ (Done(c) /\ Failures(c) # <<>>) =>
              /\ Len(cb[c]) = 1
              /\ cb[c][1].result = Undefined
              /\ cb[c][1].err \in FailureErrors(c)
         /\ cb[c] # <<>> /\ cb[c][1].err.type = "error" => cb[c][1].err \in FailureErrors(c)
         /\ NoRepeat(log[c])
         /\ Failures(c) # <<>> /\ ~IsBulk(c) =>
              (Failed(log[c][Len(log[c])]) /\ Len(Failures(c)) = 1))
  /\ [][\A c \in Calls, k \in Keys :
         (/\ pc[c] = "removing" /\ k \in Pending(c)
          /\ remove'[c][k] = "rejected"
          /\ \A j \in DOMAIN remove[c] : remove[c][j] # "rejected") =>
           cb'[c] = <<Args(Error("delete", k), Undefined)>>]_vars

C9_Witness ==
  \E c \in Calls :
    /\ op[c].name = "get" /\ Done(c)
    /\ Len(log[c]) = 2
    /\ Failed(log[c][2])
    /\ cb[c] = <<Args(Error("delete", cleanRef(op[c].sid)), Undefined)>>

\* what a collection holds after exactly its records with expires < now are
\* removed
Reaped(store, t) ==
  [k \in Keys |-> IF store[k].exists /\ store[k].expires < t THEN NoDoc ELSE store[k]]

\* C10: a reap pass that runs with no concurrent operation removes exactly
\* the records whose expires is earlier than its now: once it has completed
\* without a failed request, every such record is absent and every other
\* record is unchanged. Whatever its requests answer, a record is either
\* unchanged or was expired at the pass's now and is absent: a failed query
\* or delete (surfaced to the callback, see C9) leaves records stored and
\* never removes or changes another one.
C10_ReapRemovesExactlyExpired ==
  \A c \in Calls :
    (op[c].name = "reap" /\ Done(c) /\ alone[c])
    => /\ \A k \in Keys :
            \/ db[k] = before[c][k]
            \/ /\ before[c][k].exists /\ before[c][k].expires < now[c]
               /\ db[k] = NoDoc
       /\ Failures(c) = <<>> => db = Reaped(before[c], now[c])

C10_Witness ==
  \E c \in Calls :
    /\ op[c].name = "reap" /\ Done(c) /\ alone[c] /\ Failures(c) = <<>>
    /\ \E k \in Keys : before[c][k].exists /\ ~db[k].exists
    /\ \E k \in Keys : before[c][k].exists /\ db[k] = before[c][k]

\* C20: when the completion callback raises an exception on the non-failure
\* path of get, set, destroy or touch, the operation does not invoke it a
\* second time.
C20_NoSecondCallAfterThrow ==
  \A c \in Calls :
    (/\ op[c].name \in { "get", "set", "destroy", "touch" }
     /\ throws[c]
     /\ Failures(c) = <<>>)
    => Len(cb[c]) <= 1

HasMaxAge(session) == session.cookie.type = "object" /\ session.cookie.maxAge.type = "number"
\* call c succeeded and call d was made on the same sid after c had
\* completed, and has completed without a failed request
Then(c, d) ==
  /\ c < d
  /\ Done(c) /\ Failures(c) = <<>>
  /\ alone[d] /\ op[d].sid = op[c].sid
  /\ Done(d) /\ Failures(d) = <<>>

\* C11: after set(sid, P) followed by touch(sid, Q) with nothing in between,
\* the stored payload is P with only its cookie replaced by Q.cookie, and
\* the stored expires is computed when touch writes, from Q.cookie.maxAge.
C11_TouchKeepsPayload ==
  \A c, d \in Calls :
    (op[c].name = "set" /\ op[d].name = "touch" /\ Then(c, d)) =>
      LET doc == db[cleanRef(op[c].sid)]
          P == op[c].session
          Q == op[d].session
      IN /\ doc.exists
         /\ DOMAIN doc.session = DOMAIN P
         /\ doc.session.data = P.data
         /\ doc.session.cookie = Q.cookie
         /\ doc.expires = now[d] + (IF HasMaxAge(Q) THEN Q.cookie.maxAge.val ELSE 21600000)
         /\ now[d] >= now[c]

C11_Witness ==
  \E c, d \in Calls :
    /\ op[c].name = "set" /\ op[d].name = "touch" /\ Then(c, d)
    /\ op[c].session.data # op[d].session.data
    /\ op[c].session.cookie # op[d].session.cookie
    /\ HasMaxAge(op[c].session) /\ HasMaxAge(op[d].session)
    /\ now[d] > now[c]
    /\ db[cleanRef(op[c].sid)].session.data = op[c].session.data

\* C12: after a successful set(sid, P), a get(sid) made before the record's
\* expiry with nothing in between reports exactly P.
C12_RoundTrip ==
  \A c, d \in Calls :
    (/\ op[c].name = "set" /\ op[d].name = "get" /\ Then(c, d)
     /\ now[d] < req[c].data.expires) =>
      cb[d] = <<Args(Null, op[c].session)>>

C12_Witness ==
  \E c, d \in Calls :
    /\ op[c].name = "set" /\ op[d].name = "get" /\ Then(c, d)
    /\ now[d] < req[c].data.expires
    /\ now[d] > now[c]
    /\ cleanRef(op[c].sid) # op[c].sid
    /\ cb[d] # <<>> /\ cb[d][1].result = op[c].session

\* C13: the expires stored by set is now + cookie.maxAge when cookie.maxAge
\* is a number and now + 21,600,000 otherwise, now being the clock when set
\* was called, whatever reapInterval the store was constructed with.
C13_ExpiresOfSet ==
  [][\A c \in Calls : (op[c].name = "set" /\ Writes(c)) =>
       LET doc == db'[cleanRef(op[c].sid)]
           P == op[c].session
       IN /\ doc.exists
          /\ doc.expires = now[c] + (IF HasMaxAge(P) THEN P.cookie.maxAge.val ELSE 21600000)]_vars

C13_Witness ==
  \E c \in Calls :
    /\ op[c].name = "set" /\ Done(c) /\ Failures(c) = <<>>
    /\ op[c].session.cookie = Undefined
    /\ timer.interval.val # 21600000
    /\ db[cleanRef(op[c].sid)].expires = now[c] + 21600000
    /\ now[c] > 0

\* calls c and d overlapped: the later one was made while the earlier one
\* was in flight
Concurrent(c, d) == c # d /\ ~alone[c] /\ ~alone[d] /\ op[c].name # "none" /\ op[d].name # "none"

\* C14: a get and a reap pass that run concurrently on the same expired key
\* with no backend failure end the same way in every interleaving: get
\* reports no session and the key has no record once both have completed.
C14_GetAndReapConverge ==
  \A c, d \in Calls :
    (/\ op[c].name = "get" /\ op[d].name = "reap" /\ Concurrent(c, d)
     /\ Done(c) /\ Done(d) /\ Failures(c) = <<>> /\ Failures(d) = <<>>
     /\ cleanRef(op[c].sid) \in DOMAIN remove[d]
     /\ \/ seen[c].doc.exists /\ seen[c].doc.expires < now[c]
        \/ ~seen[c].doc.exists /\ now[c] >= now[d]) =>
      /\ cb[c] = <<NoSession>>
      /\ ~db[cleanRef(op[c].sid)].exists

\* the delete of call c takes effect in this step
Deletes(c) == pc[c] = "doc.delete" /\ pc'[c] = "destroy.then" /\ resp'[c].ok

\* C16: the delete get issues for an expired record never removes a record
\* that is not expired: a record written by a set between get's read and
\* that delete stays stored.
C16_GetDeletesOnlyExpired ==
  [][\A c \in Calls : (op[c].name = "get" /\ Deletes(c) /\ db[req[c].key].exists) =>
       db[req[c].key].expires < clock]_vars

\* C17: touch never re-creates a removed session: its write does not store
\* a record on a key whose record was removed after touch read it.
C17_TouchNeverRecreates ==
  [][\A c \in Calls : (op[c].name = "touch" /\ Writes(c)) => db[req[c].key].exists]_vars

\* C18: touch never discards payload written by a concurrent set: the
\* non-cookie fields of the record touch overwrites are kept by its write.
C18_TouchKeepsConcurrentSet ==
  [][\A c \in Calls : (op[c].name = "touch" /\ Writes(c) /\ db[req[c].key].exists) =>
       db'[req[c].key].session.data = db[req[c].key].session.data]_vars

\* session identifiers, among them two that differ only in a disallowed
\* character and its replacement
AllSids == Sids \cup { <<"s", "_">> }

\* C19: a set, touch or destroy on one session identifier leaves the record
\* of every other session identifier unchanged, whatever characters the
\* identifiers contain.
C19_DistinctSidsDoNotInterfere ==
  [][\A c \in Calls, sid2 \in AllSids :
       (/\ op[c].name \in { "set", "touch", "destroy" }
        /\ Writes(c) \/ Deletes(c)
        /\ sid2 # op[c].sid) =>
         db'[cleanRef(sid2)] = db[cleanRef(sid2)]]_vars

Expired(k) == db[k].exists /\ db[k].expires < clock

\* the application's set has written key k
Rewritten(k) ==
  \E c \in First : pc[c] \in { "set.then", "done" } /\ req[c].key = k /\ resp[c].ok

\* a callback of the timer is still to run by MaxWait
Due == timer.fired * timer.delay + timer.delay - 1 <= MaxWait

\* C15: with a numeric reapInterval and a function reapCallback and no
\* backend failure, every record whose expires has passed is removed by a
\* reaper pass unless it is rewritten afterwards, without any get on its
\* key, and reaper passes recur at the configured interval: the timer stays
\* installed, every callback that is due runs, the n-th one not before n
\* times the configured reapInterval (less the millisecond Date.now() can
\* trail by), and each one starts a pass with the clock it reads as its
\* bound.
C15_ExpiredEventuallyReaped ==
  /\ \A k \in Keys :
       /\ (Expired(k) /\ Due /\ ~Rewritten(k)) ~> (~db[k].exists \/ Rewritten(k))
       /\ (Expired(k) /\ Due /\ Rewritten(k)) ~> ~db[k].exists
  /\ [][\A k \in Keys : (db[k].exists /\ ~db'[k].exists) =>
         \E c \in Passes : op[c].name = "reap" /\ Removes(c, k)]_vars
  /\ \A n \in 0 .. MaxWait : (timer.fired = n /\ Due) ~> (timer.fired > n)
  /\ [](/\ timer.installed
        /\ IF timer.interval = Huge THEN timer.fired = 0
           ELSE clock >= timer.fired * timer.interval.val - 1)
  /\ [][timer' # timer =>
         /\ timer'.fired = timer.fired + 1
         /\ \E c \in Passes : /\ pc'[c] = "col.get" /\ ~Busy(c)
                               /\ op'[c].name = "reap"
                               /\ req'[c].bound = clock]_vars

====
